---- MODULE Spec2Model ----
(***************************************************************************)
(* State-machine model of the rust-engine crate: the process-wide          *)
(* lightweight-mode switch (lib.rs), the Deduplicator (deduplicator.rs),   *)
(* the TurboAggregator (turbo_aggregator.rs) and the TurboScanner          *)
(* (turbo_scanner.rs).                                                     *)
(*                                                                         *)
(* Strings are sequences of one-character strings, so that format! and     *)
(* join are concatenations that can collide.  The capacities 5000 / 20000  *)
(* of the Deduplicator and the scanner's cap of 1000 are scaled down to    *)
(* LightMaxSize / NormalMaxSize / ScannerCap; the arithmetic on them       *)
(* (max_size / 4, max_size / 2, >=, >) is the code's.                      *)
(***************************************************************************)
EXTENDS Integers, Sequences, FiniteSets, TLC

VARIABLES
    lightweight_mode,    \* lib.rs LIGHTWEIGHT_MODE
    d_live,              \* a Deduplicator has been constructed
    max_size,            \* Deduplicator.max_size
    seen_items,          \* Deduplicator.seen_items
    stats,               \* Deduplicator.stats
    d_last,              \* history: the last call on the Deduplicator and what it returned
    d_only_single,       \* history: every call so far on the Deduplicator was check_and_add
    d_passed,            \* history: the keys passed to the Deduplicator since the last clear
    a_live,              \* a TurboAggregator has been constructed
    cache_timeout_ms,    \* TurboAggregator.cache_timeout_ms
    price_cache,         \* TurboAggregator.price_cache: key -> CachedPrice
    a_last,              \* history: the call on the aggregator whose result the host has not taken yet
    a_clock,             \* history: the last now_ms given to aggregate_prices
    s_live,              \* a TurboScanner has been constructed
    min_profit_bps,      \* TurboScanner.min_profit_bps
    seen_opportunities,  \* TurboScanner.seen_opportunities
    scan_count,          \* TurboScanner.scan_count
    s_last,              \* history: the last call on the scanner, its steps and its result
    s_emitted,           \* history: the (path, dexes) emitted since the seen-set was last emptied
    s_all_lightweight,   \* history: every filter_opportunities so far ran in lightweight mode
    thread,              \* concurrent callers: the call each makes, where it is, what it returned
    lock                 \* each RwLock: the thread that holds it for writing, or 0, and the
                         \* threads that hold it for reading

dedup_vars == <<d_live, max_size, seen_items, stats, d_last, d_only_single, d_passed>>

agg_vars == <<a_live, cache_timeout_ms, price_cache, a_last, a_clock>>

scan_vars == <<s_live, min_profit_bps, seen_opportunities, scan_count, s_last, s_emitted,
              s_all_lightweight>>

conc_vars == <<thread, lock>>

vars == <<lightweight_mode, dedup_vars, agg_vars, scan_vars, conc_vars>>

-----------------------------------------------------------------------------
(* Bounds of the model *)

\* number of distinct keys offered to the Deduplicator
NumKeys == 4
\* stands for max_size = 5000 (lightweight at construction)
LightMaxSize == 2
\* stands for max_size = 20000 (normal mode at construction)
NormalMaxSize == 3
\* cap on stats.total_checked (a u64 in the code)
MaxChecked == 5
\* longest key vector given to check_batch
MaxBatch == 2
\* now_ms is one of 0, 2500, ..., MaxTicks * 2500
MaxTicks == 2
\* longest observation vector given to aggregate_prices
MaxPrices == 2
\* stands for the scanner's cap of 1000 fingerprints in lightweight mode
ScannerCap == 1
\* cap on scan_count (a u64 in the code)
MaxScans == 2
\* longest candidate vector given to filter_opportunities
MaxOpps == 2
\* number of threads that call into the engines at the same time
NumThreads == 2

Keys == 1..NumKeys

None == "none"

Min(a, b) == IF a <= b THEN a ELSE b

SeqsUpTo(S, n) == UNION {[1..m -> S] : m \in 0..n}

-----------------------------------------------------------------------------
(* lib.rs: the mode switch *)

\* set_lightweight_mode(enabled)
set_lightweight_mode(enabled) ==
    /\ lightweight_mode' = enabled

-----------------------------------------------------------------------------
(* deduplicator.rs *)

DedupStatsDefault == [total_checked |-> 0, duplicates_found |-> 0, cache_clears |-> 0]

\* mutant: the capacity does not depend on the mode
NewMaxSize_Same(lightweight) == NormalMaxSize

\* Deduplicator::new: max_size from the mode at construction
NewMaxSize(lightweight) == IF lightweight THEN LightMaxSize ELSE NormalMaxSize

\* mutant: the cache is trimmed only once it has grown past max_size
CacheIsFull_Late(seen, max) == Cardinality(seen) > max

\* check_and_add: `if seen.len() >= self.max_size`
CacheIsFull(seen, max) == Cardinality(seen) >= max

\* mutant: nothing is dropped by the cleanup
KeepSize_All(max, lightweight) == max

\* mutant: the two divisors are exchanged
KeepSize_Swapped(max, lightweight) == IF lightweight THEN max \div 2 ELSE max \div 4

\* check_and_add: keep_size = max_size / 4 in lightweight mode, max_size / 2 otherwise
KeepSize(max, lightweight) == IF lightweight THEN max \div 4 ELSE max \div 2

\* mutant: the cleanup keeps keys that the set did not hold
TakeAny_FromAllKeys(seen, keep) ==
    {S \in SUBSET Keys : Cardinality(S) = Min(keep, Cardinality(seen))}

\* seen.iter().take(keep_size): hash-set iteration order is arbitrary, so any
\* subset of the right size can be the one that is kept
TakeAny(seen, keep) ==
    {S \in SUBSET seen : Cardinality(S) = Min(keep, Cardinality(seen))}

\* mutant: the key is inserted before the cleanup, which may drop it again
InsertNew_BeforeCleanup(seen, max, key, lightweight) ==
    IF CacheIsFull(seen, max)
    THEN TakeAny(seen \cup {key}, KeepSize(max, lightweight))
    ELSE {seen \cup {key}}

\* check_and_add, lines 65-84: the sets seen_items can be after a key that was
\* not in it is added (cleanup when full, then insert)
InsertNew(seen, max, key, lightweight) ==
    IF CacheIsFull(seen, max)
    THEN {kept \cup {key} : kept \in TakeAny(seen, KeepSize(max, lightweight))}
    ELSE {seen \cup {key}}

\* mutant: the capacity test and the cleanup come before the membership test
CheckAndAddOutcomes_EvictFirst(seen, st, max, key, lightweight) ==
    LET st1 == [st EXCEPT !.total_checked = @ + 1]
        st2 == IF key \in seen THEN [st1 EXCEPT !.duplicates_found = @ + 1] ELSE st1
    IN {[seen |-> s,
         stats |-> IF CacheIsFull(seen, max)
                   THEN [st2 EXCEPT !.cache_clears = @ + 1] ELSE st2,
         ret |-> key \in seen, evicted |-> CacheIsFull(seen, max)]
        : s \in InsertNew(seen, max, key, lightweight)}

\* Deduplicator::check_and_add as a relation: the possible
\* [seen, stats, ret, evicted] after the call
CheckAndAddOutcomes(seen, st, max, key, lightweight) ==
    LET st1 == [st EXCEPT !.total_checked = @ + 1] IN
    IF key \in seen
    THEN {[seen |-> seen,
           stats |-> [st1 EXCEPT !.duplicates_found = @ + 1],
           ret |-> TRUE, evicted |-> FALSE]}
    ELSE {[seen |-> s,
           stats |-> IF CacheIsFull(seen, max)
                     THEN [st1 EXCEPT !.cache_clears = @ + 1] ELSE st1,
           ret |-> FALSE, evicted |-> CacheIsFull(seen, max)]
          : s \in InsertNew(seen, max, key, lightweight)}

\* mutant: the batch records no key
BatchInsert_Skipped(seen, key, is_dup) == seen

\* check_batch, lines 98-102: `if is_dup { .. } else { seen.insert(key); }`
BatchInsert(seen, key, is_dup) == IF is_dup THEN seen ELSE seen \cup {key}

\* Deduplicator::check_batch: the loop over keys, in input order
RECURSIVE CheckBatchLoop(_, _, _, _)
CheckBatchLoop(seen, st, keys, results) ==
    IF keys = <<>>
    THEN [seen |-> seen, stats |-> st, ret |-> results]
    ELSE LET key == Head(keys)
             is_dup == key \in seen
             st1 == [st EXCEPT !.total_checked = @ + 1]
         IN CheckBatchLoop(
                BatchInsert(seen, key, is_dup),
                IF is_dup THEN [st1 EXCEPT !.duplicates_found = @ + 1] ELSE st1,
                Tail(keys),
                Append(results, is_dup))

\* Deduplicator::get_stats
GetStats(st) ==
    [is_duplicate |-> st.duplicates_found > 0,
     total_checked |-> st.total_checked,
     duplicates_found |-> st.duplicates_found]

\* Deduplicator::get_memory_savings, as the exact fraction num / den of the f64
MemorySavings(seen, max) ==
    IF max = 0
    THEN [num |-> 0, den |-> 1]
    ELSE [num |-> 100 * max - 100 * Cardinality(seen), den |-> max]

\* the record kept of a call: what was called, with what, the booleans (ret)
\* and the numbers (val) it returned, whether it ran the cleanup, the cache
\* size it found, and whether it came right after a check_and_add of the same
\* key that returned false
Call(op, keys, ret, val, evicted, follows) ==
    [op |-> op, keys |-> keys, ret |-> ret, val |-> val, evicted |-> evicted,
     size_before |-> Cardinality(seen_items), follows |-> follows]

NoCall == [op |-> None, keys |-> <<>>, ret |-> <<>>, val |-> <<>>, evicted |-> FALSE,
           size_before |-> 0, follows |-> None]

\* how a check_and_add(key) relates to the call before it
Follows(key) ==
    IF d_last.op = "check_and_add" /\ d_last.keys = <<key>> /\ d_last.ret = <<FALSE>>
    THEN IF d_last.evicted THEN "first_evicted" ELSE "first" ELSE None

Dedup_new ==
    /\ ~d_live
    /\ d_live' = TRUE
    /\ max_size' = NewMaxSize(lightweight_mode)
    /\ seen_items' = {}
    /\ stats' = DedupStatsDefault
    /\ d_last' = NoCall
    /\ d_only_single' = TRUE
    /\ d_passed' = {}
    /\ UNCHANGED <<lightweight_mode, agg_vars, scan_vars, conc_vars>>

Dedup_check_and_add(key) ==
    /\ d_live
    /\ stats.total_checked < MaxChecked
    /\ \E o \in CheckAndAddOutcomes(seen_items, stats, max_size, key, lightweight_mode) :
          /\ seen_items' = o.seen
          /\ stats' = o.stats
          /\ d_last' = Call("check_and_add", <<key>>, <<o.ret>>, <<>>, o.evicted, Follows(key))
    /\ d_passed' = d_passed \cup {key}
    /\ UNCHANGED <<lightweight_mode, agg_vars, scan_vars, conc_vars, d_live, max_size, d_only_single>>

Dedup_check_batch(keys) ==
    /\ d_live
    /\ stats.total_checked + Len(keys) <= MaxChecked
    /\ \E o \in {CheckBatchLoop(seen_items, stats, keys, <<>>)} :
          /\ seen_items' = o.seen
          /\ stats' = o.stats
          /\ d_last' = Call("check_batch", keys, o.ret, <<>>, FALSE, None)
    /\ d_only_single' = FALSE
    /\ d_passed' = d_passed \cup {keys[i] : i \in 1..Len(keys)}
    /\ UNCHANGED <<lightweight_mode, agg_vars, scan_vars, conc_vars, d_live, max_size>>

Dedup_get_stats ==
    /\ d_live
    /\ d_last' = LET r == GetStats(stats) IN
                 Call("get_stats", <<>>, <<r.is_duplicate>>,
                      <<r.total_checked, r.duplicates_found>>, FALSE, None)
    /\ d_only_single' = FALSE
    /\ UNCHANGED <<lightweight_mode, agg_vars, scan_vars, conc_vars, d_live, max_size, seen_items, stats,
                   d_passed>>

Dedup_get_cache_size ==
    /\ d_live
    /\ d_last' = Call("get_cache_size", <<>>, <<>>, <<Cardinality(seen_items)>>, FALSE, None)
    /\ d_only_single' = FALSE
    /\ UNCHANGED <<lightweight_mode, agg_vars, scan_vars, conc_vars, d_live, max_size, seen_items, stats,
                   d_passed>>

Dedup_clear ==
    /\ d_live
    /\ seen_items' = {}
    /\ stats' = DedupStatsDefault
    /\ d_last' = Call("clear", <<>>, <<>>, <<>>, FALSE, None)
    /\ d_only_single' = FALSE
    /\ d_passed' = {}
    /\ UNCHANGED <<lightweight_mode, agg_vars, scan_vars, conc_vars, d_live, max_size>>

Dedup_get_memory_savings ==
    /\ d_live
    /\ d_last' = LET r == MemorySavings(seen_items, max_size) IN
                 Call("get_memory_savings", <<>>, <<>>, <<r.num, r.den>>, FALSE, None)
    /\ d_only_single' = FALSE
    /\ UNCHANGED <<lightweight_mode, agg_vars, scan_vars, conc_vars, d_live, max_size, seen_items, stats,
                   d_passed>>

Dedup_set_mode(enabled) ==
    /\ set_lightweight_mode(enabled)
    /\ UNCHANGED <<dedup_vars, agg_vars, scan_vars, conc_vars>>


-----------------------------------------------------------------------------
(* turbo_aggregator.rs *)

\* TurboAggregator::new: `dedup_window_ms: 5000`
dedup_window_ms == 5000

\* the cache_timeout_ms values given to the constructor (an i64, not validated);
\* 1 is halved to 0 in lightweight mode
TimeoutChoices == {1, 2500, 10000}

\* the current_time_ms values given to aggregate_prices
Times == {t * 2500 : t \in 0..MaxTicks}

\* PriceData records the host supplies: two triples whose formatted keys are
\* the same, with different prices and timestamps, and a triple with a key of
\* its own
PriceInputs ==
    { [token_a |-> <<"A", "-", "B">>, token_b |-> <<"C">>, price |-> "100",
       source |-> <<"x">>, timestamp |-> 0],
      [token_a |-> <<"A">>, token_b |-> <<"B", "-", "C">>, price |-> "105",
       source |-> <<"x">>, timestamp |-> 5000],
      [token_a |-> <<"A">>, token_b |-> <<"C">>, price |-> "110",
       source |-> <<"x">>, timestamp |-> 2500] }

\* AHashMap::new()
EmptyCache == [k \in {} |-> None]

\* TurboAggregator::new: the timeout is halved in lightweight mode
NewCacheTimeout(timeout, lightweight) == IF lightweight THEN timeout \div 2 ELSE timeout

\* format!("{}-{}-{}", price.token_a, price.token_b, price.source)
PriceKey(price) == price.token_a \o <<"-">> \o price.token_b \o <<"-">> \o price.source

\* mutant: an age of 0 is not taken to be inside the dedup window
InDedupWindow_Positive(age) == 0 < age /\ age < dedup_window_ms

\* `age_ms < self.dedup_window_ms`
InDedupWindow(age) == age < dedup_window_ms

\* mutant: an entry of age exactly cache_timeout_ms is still served
StillValid_Inclusive(age, timeout) == age <= timeout

\* `age_ms < self.cache_timeout_ms`
StillValid(age, timeout) == age < timeout

\* mutant: the timeout is tested before the dedup window
Decide_TimeoutFirst(cache, key, now, timeout) ==
    IF key \in DOMAIN cache
    THEN LET age_ms == now - cache[key].timestamp IN
         IF StillValid(age_ms, timeout) THEN "cached"
         ELSE IF InDedupWindow(age_ms) THEN "drop"
         ELSE "store"
    ELSE "store"

\* aggregate_prices, lines 53-66: what is done with one observation
Decide(cache, key, now, timeout) ==
    IF key \in DOMAIN cache
    THEN LET age_ms == now - cache[key].timestamp IN
         IF InDedupWindow(age_ms) THEN "drop"
         ELSE IF StillValid(age_ms, timeout) THEN "cached"
         ELSE "store"
    ELSE "store"

\* mutant: the entry is stamped with the observation's own timestamp
NewEntry_OwnTimestamp(price, now) == [data |-> price, timestamp |-> price.timestamp]

\* CachedPrice { data: price.clone(), timestamp: current_time_ms }
NewEntry(price, now) == [data |-> price, timestamp |-> now]

\* cache.insert(key, entry)
CacheInsert(cache, key, entry) ==
    [k \in DOMAIN cache \cup {key} |-> IF k = key THEN entry ELSE cache[k]]

\* mutant: the sweep keeps the old entries and drops the fresh ones
EvictOldEntries_Inverted(cache, now, timeout) ==
    [k \in {k \in DOMAIN cache : ~(now - cache[k].timestamp < timeout)} |-> cache[k]]

\* TurboAggregator::evict_old_entries
EvictOldEntries(cache, now, timeout) ==
    [k \in {k \in DOMAIN cache : now - cache[k].timestamp < timeout} |-> cache[k]]

\* cache.get(&key), as <<>> or <<entry>>
CacheGet(cache, key) == IF key \in DOMAIN cache THEN <<cache[key]>> ELSE <<>>

\* aggregate_prices, lines 49-75: the loop; each step is logged with the entry
\* it found for its key, what it emitted, whether it stored the observation,
\* whether it left the cache as it was, and the entry of its key afterwards
RECURSIVE AggregateLoop(_, _, _, _, _, _)
AggregateLoop(cache, prices, now, timeout, aggregated, log) ==
    IF prices = <<>>
    THEN [cache |-> cache, out |-> aggregated, log |-> log]
    ELSE LET price == Head(prices)
             key == PriceKey(price)
             what == Decide(cache, key, now, timeout)
             emit == CASE what = "drop" -> <<>>
                       [] what = "cached" -> <<cache[key].data>>
                       [] OTHER -> <<price>>
             cache1 == IF what = "store"
                       THEN CacheInsert(cache, key, NewEntry(price, now))
                       ELSE cache
         IN AggregateLoop(cache1, Tail(prices), now, timeout, aggregated \o emit,
                Append(log, [price |-> price, hit |-> CacheGet(cache, key),
                             emit |-> emit, stored |-> what = "store",
                             unchanged |-> cache1 = cache,
                             entry |-> CacheGet(cache1, key)]))

\* TurboAggregator::aggregate_prices
AggregatePrices(cache, prices, now, timeout, lightweight) ==
    AggregateLoop(IF lightweight THEN EvictOldEntries(cache, now, timeout) ELSE cache,
                  prices, now, timeout, <<>>, <<>>)

\* `p.price.parse::<f64>()` on the price strings of the model, in hundredths;
\* the strings that do not parse are not in the domain
ParsedPrices == [p \in {"100", "105", "110"} |->
                    CASE p = "100" -> 10000 [] p = "105" -> 10500 [] OTHER -> 11000]

\* calculate_median_price, lines 92-97: the (value, observation) pairs that parse
RECURSIVE ParseAll(_)
ParseAll(prices) ==
    IF prices = <<>> THEN <<>>
    ELSE (IF Head(prices).price \in DOMAIN ParsedPrices
          THEN <<[val |-> ParsedPrices[Head(prices).price], data |-> Head(prices)]>>
          ELSE <<>>) \o ParseAll(Tail(prices))

\* sort_by on the value: a stable insertion into an ascending sequence
RECURSIVE SortByValue(_)
SortByValue(pairs) ==
    IF pairs = <<>> THEN <<>>
    ELSE LET rest == SortByValue(SubSeq(pairs, 1, Len(pairs) - 1))
             x == pairs[Len(pairs)]
             n == Cardinality({i \in 1..Len(rest) : rest[i].val <= x.val})
         IN SubSeq(rest, 1, n) \o <<x>> \o SubSeq(rest, n + 1, Len(rest))

\* TurboAggregator::calculate_median_price: <<>> is None, <<p>> is Some(p)
CalculateMedianPrice(prices) ==
    IF prices = <<>> THEN <<>>
    ELSE IF Len(prices) = 1 THEN <<prices[1]>>
    ELSE LET price_values == SortByValue(ParseAll(prices)) IN
         IF price_values = <<>> THEN <<>>
         ELSE <<price_values[(Len(price_values) \div 2) + 1].data>>

\* the record kept of a call on the aggregator
AggCall(op, prices, now, lightweight, out, log, val) ==
    [op |-> op, prices |-> prices, now |-> now, lightweight |-> lightweight,
     out |-> out, log |-> log, val |-> val, swept |-> {}]

\* the keys the lightweight sweep of a call removes
SweptKeys(cache, now, timeout, lightweight) ==
    IF lightweight THEN DOMAIN cache \ DOMAIN EvictOldEntries(cache, now, timeout) ELSE {}

NoAggCall == AggCall(None, <<>>, 0, FALSE, <<>>, <<>>, 0)

Agg_new(timeout) ==
    /\ ~a_live
    /\ a_live' = TRUE
    /\ cache_timeout_ms' = NewCacheTimeout(timeout, lightweight_mode)
    /\ price_cache' = EmptyCache
    /\ a_last' = NoAggCall
    /\ UNCHANGED <<lightweight_mode, dedup_vars, scan_vars, conc_vars, a_clock>>

\* the host gives now_ms values that never decrease (spec, external interfaces)
Agg_aggregate_prices(prices, current_time_ms) ==
    /\ a_live
    /\ a_last = NoAggCall
    /\ current_time_ms >= a_clock
    /\ \E o \in {AggregatePrices(price_cache, prices, current_time_ms,
                                 cache_timeout_ms, lightweight_mode)} :
          /\ price_cache' = o.cache
          /\ a_last' = [AggCall("aggregate_prices", prices, current_time_ms,
                                lightweight_mode, o.out, o.log, 0)
                           EXCEPT !.swept = SweptKeys(price_cache, current_time_ms,
                                                      cache_timeout_ms, lightweight_mode)]
    /\ a_clock' = current_time_ms
    /\ UNCHANGED <<lightweight_mode, dedup_vars, scan_vars, conc_vars, a_live, cache_timeout_ms>>

Agg_calculate_median_price(prices) ==
    /\ a_live
    /\ a_last = NoAggCall
    /\ a_last' = AggCall("calculate_median_price", prices, 0, FALSE,
                         CalculateMedianPrice(prices), <<>>, 0)
    /\ UNCHANGED <<lightweight_mode, dedup_vars, scan_vars, conc_vars, a_live, cache_timeout_ms, price_cache, a_clock>>

Agg_get_cache_size ==
    /\ a_live
    /\ a_last = NoAggCall
    /\ a_last' = AggCall("get_cache_size", <<>>, 0, FALSE, <<>>, <<>>,
                         Cardinality(DOMAIN price_cache))
    /\ UNCHANGED <<lightweight_mode, dedup_vars, scan_vars, conc_vars, a_live, cache_timeout_ms, price_cache, a_clock>>

Agg_clear_cache ==
    /\ a_live
    /\ a_last = NoAggCall
    /\ price_cache' = EmptyCache
    /\ a_last' = AggCall("clear_cache", <<>>, 0, FALSE, <<>>, <<>>, 0)
    /\ UNCHANGED <<lightweight_mode, dedup_vars, scan_vars, conc_vars, a_live, cache_timeout_ms, a_clock>>

\* get_memory_usage, lines 131-134: size_of::<AHashMap<..>>() is 64 on the
\* 64-bit targets
GetMemoryUsage(cache) == 64 + Cardinality(DOMAIN cache) * 256

Agg_get_memory_usage ==
    /\ a_live
    /\ a_last = NoAggCall
    /\ a_last' = AggCall("get_memory_usage", <<>>, 0, FALSE, <<>>, <<>>,
                         GetMemoryUsage(price_cache))
    /\ UNCHANGED <<lightweight_mode, dedup_vars, scan_vars, conc_vars, a_live, cache_timeout_ms, price_cache, a_clock>>

\* the host has the result of the call: its record is dropped
Agg_returned ==
    /\ a_last # NoAggCall
    /\ a_last' = NoAggCall
    /\ UNCHANGED <<lightweight_mode, dedup_vars, scan_vars, conc_vars, a_live, cache_timeout_ms,
                   price_cache, a_clock>>

Agg_set_mode(enabled) ==
    /\ set_lightweight_mode(enabled)
    /\ UNCHANGED <<dedup_vars, agg_vars, scan_vars, conc_vars>>

-----------------------------------------------------------------------------
(* turbo_scanner.rs *)

\* the min_profit_bps values given to the constructor
MinProfitChoices == {50, 100}

Opp(path, dexes, profit_bps) ==
    [path |-> path, dexes |-> dexes, input_amount |-> "1000", output_amount |-> "1100",
     profit |-> "100", profit_bps |-> profit_bps, timestamp |-> 0]

\* Opportunity records the host supplies: a route, a second route with the
\* same fingerprint, the first route again with a low profit, and two more
\* routes
OppInputs ==
    { Opp(<< <<"A">>, <<"B">> >>, << <<"x">> >>, 100),
      Opp(<< <<"A", "-", "B">> >>, << <<"x">> >>, 50),
      Opp(<< <<"A">>, <<"B">> >>, << <<"x">> >>, 10),
      Opp(<< <<"B">> >>, << <<"x">>, <<"y">> >>, 100),
      Opp(<< <<"C">> >>, << <<"y">> >>, 100) }

\* [String]::join(sep)
RECURSIVE Join(_, _)
Join(strs, sep) ==
    IF strs = <<>> THEN <<>>
    ELSE IF Len(strs) = 1 THEN strs[1]
    ELSE strs[1] \o sep \o Join(Tail(strs), sep)

\* TurboScanner::generate_opportunity_key
GenerateOpportunityKey(opp) ==
    Join(opp.path, <<"-">>) \o <<"|">> \o Join(opp.dexes, <<"-">>)

\* mutant: the comparison is the wrong way round
BelowMinProfit_Inverted(opp, min) == opp.profit_bps > min

\* `opp.profit_bps < self.min_profit_bps`
BelowMinProfit(opp, min) == opp.profit_bps < min

\* mutant: the seen-set is never cleared on overflow
OverCap_Never(seen, lightweight) == FALSE

\* `lightweight && seen.len() > 1000`
OverCap(seen, lightweight) == lightweight /\ Cardinality(seen) > ScannerCap

\* mutant: the fingerprint of an admitted candidate is not recorded
Admit_NotRecorded(seen, key, clear) == IF clear THEN {} ELSE seen

\* filter_opportunities, lines 60-64: the seen-set after a candidate is admitted
Admit(seen, key, clear) == (IF clear THEN {} ELSE seen) \cup {key}

\* filter_opportunities, lines 45-66: the loop; each step is logged with the
\* candidate, whether it was emitted, whether the seen-set was cleared, whether
\* the seen-set was left as it was, and the size of the seen-set afterwards
RECURSIVE FilterLoop(_, _, _, _, _, _)
FilterLoop(seen, opportunities, min, lightweight, filtered, log) ==
    IF opportunities = <<>>
    THEN [seen |-> seen, out |-> filtered, log |-> log]
    ELSE LET opp == Head(opportunities)
             key == GenerateOpportunityKey(opp)
             skip == BelowMinProfit(opp, min) \/ key \in seen
             clear == ~skip /\ OverCap(seen, lightweight)
             seen1 == IF skip THEN seen ELSE Admit(seen, key, clear)
         IN FilterLoop(seen1, Tail(opportunities), min, lightweight,
                IF skip THEN filtered ELSE Append(filtered, opp),
                Append(log, [opp |-> opp, emitted |-> ~skip, cleared |-> clear,
                             unchanged |-> seen1 = seen,
                             size_after |-> Cardinality(seen1)]))

\* what identifies an opportunity: its route and its venues
Route(opp) == <<opp.path, opp.dexes>>

\* the (path, dexes) emitted since the seen-set was last emptied, after the
\* logged steps of a call
RECURSIVE EmittedSince(_, _)
EmittedSince(emitted, log) ==
    IF log = <<>> THEN emitted
    ELSE EmittedSince(IF Head(log).emitted
                      THEN (IF Head(log).cleared THEN {} ELSE emitted) \cup {Route(Head(log).opp)}
                      ELSE emitted,
                      Tail(log))

\* the record kept of a call on the scanner
ScanCall(op, opps, lightweight, out, log, val) ==
    [op |-> op, opps |-> opps, lightweight |-> lightweight, out |-> out,
     log |-> log, val |-> val]

NoScanCall == ScanCall(None, <<>>, FALSE, <<>>, <<>>, 0)

\* mutant: the counter counts candidates, not calls
ScanCountAfter_PerCandidate(count, opportunities) == count + Len(opportunities)

\* filter_opportunities, lines 32-34: `*count += 1`, once per call
ScanCountAfter(count, opportunities) == count + 1

Scan_new(min) ==
    /\ ~s_live
    /\ s_live' = TRUE
    /\ min_profit_bps' = min
    /\ seen_opportunities' = {}
    /\ scan_count' = 0
    /\ s_last' = NoScanCall
    /\ s_emitted' = {}
    /\ s_all_lightweight' = TRUE
    /\ UNCHANGED <<lightweight_mode, dedup_vars, agg_vars, conc_vars>>

Scan_filter_opportunities(opportunities) ==
    /\ s_live
    /\ scan_count < MaxScans
    /\ scan_count' = ScanCountAfter(scan_count, opportunities)
    /\ \E o \in {FilterLoop(seen_opportunities, opportunities, min_profit_bps,
                           lightweight_mode, <<>>, <<>>)} :
          /\ seen_opportunities' = o.seen
          /\ s_last' = ScanCall("filter_opportunities", opportunities, lightweight_mode,
                                o.out, o.log, 0)
          /\ s_emitted' = EmittedSince(s_emitted, o.log)
    /\ s_all_lightweight' = (s_all_lightweight /\ lightweight_mode)
    /\ UNCHANGED <<lightweight_mode, dedup_vars, agg_vars, conc_vars, s_live, min_profit_bps>>

Scan_get_scan_count ==
    /\ s_live
    /\ s_last' = ScanCall("get_scan_count", <<>>, FALSE, <<>>, <<>>, scan_count)
    /\ UNCHANGED <<lightweight_mode, dedup_vars, agg_vars, conc_vars, s_live, min_profit_bps,
                   seen_opportunities, scan_count, s_emitted, s_all_lightweight>>

Scan_reset ==
    /\ s_live
    /\ seen_opportunities' = {}
    /\ scan_count' = 0
    /\ s_last' = ScanCall("reset", <<>>, FALSE, <<>>, <<>>, 0)
    /\ s_emitted' = {}
    /\ UNCHANGED <<lightweight_mode, dedup_vars, agg_vars, conc_vars, s_live, min_profit_bps,
                   s_all_lightweight>>

Scan_get_cache_size ==
    /\ s_live
    /\ s_last' = ScanCall("get_cache_size", <<>>, FALSE, <<>>, <<>>,
                          Cardinality(seen_opportunities))
    /\ UNCHANGED <<lightweight_mode, dedup_vars, agg_vars, conc_vars, s_live, min_profit_bps,
                   seen_opportunities, scan_count, s_emitted, s_all_lightweight>>

Scan_set_mode(enabled) ==
    /\ set_lightweight_mode(enabled)
    /\ UNCHANGED <<dedup_vars, agg_vars, scan_vars, conc_vars>>

-----------------------------------------------------------------------------
(* Concurrent callers.  Every engine method takes &self, so any number of     *)
(* threads can be inside the same instance; what keeps them apart are the     *)
(* parking_lot RwLocks.  A step of a thread is one lock acquisition, or the   *)
(* code that runs with the guards it holds up to the next acquisition.  A     *)
(* temporary guard is dropped at the end of its statement, the other guards   *)
(* when the method returns.                                                   *)

Threads == 1..NumThreads

LockNames == {"seen_items", "stats", "scan_count", "seen_opportunities",
              "price_cache", "mode"}

Unlocked == [l \in LockNames |-> [writer |-> 0, readers |-> {}]]

ConcCall(op, keys, opps, prices, enabled) ==
    [op |-> op, keys |-> keys, opps |-> opps, prices |-> prices, enabled |-> enabled]

Nullary(op) == ConcCall(op, <<>>, <<>>, <<>>, FALSE)

\* the calls the threads make: every operation of the crate, the ones with
\* arguments on a few arguments
ConcCalls ==
    << ConcCall("check_and_add", <<1>>, <<>>, <<>>, FALSE),
       ConcCall("check_and_add", <<NumKeys>>, <<>>, <<>>, FALSE),
       ConcCall("check_batch", [i \in 1..(NumKeys - 1) |-> i], <<>>, <<>>, FALSE),
       Nullary("get_stats"),
       Nullary("dedup_get_cache_size"),
       Nullary("clear"),
       Nullary("get_memory_savings"),
       ConcCall("filter_opportunities", <<>>,
                << Opp(<< <<"A">>, <<"B">> >>, << <<"x">> >>, 100),
                   Opp(<< <<"C">> >>, << <<"y">> >>, 100) >>, <<>>, FALSE),
       Nullary("get_scan_count"),
       Nullary("reset"),
       Nullary("scan_get_cache_size"),
       ConcCall("aggregate_prices", <<>>, <<>>,
                << [token_a |-> <<"A">>, token_b |-> <<"C">>, price |-> "110",
                    source |-> <<"x">>, timestamp |-> 2500] >>, FALSE),
       ConcCall("calculate_median_price", <<>>, <<>>,
                << [token_a |-> <<"A">>, token_b |-> <<"C">>, price |-> "110",
                    source |-> <<"x">>, timestamp |-> 2500] >>, FALSE),
       Nullary("agg_get_cache_size"),
       Nullary("clear_cache"),
       Nullary("get_memory_usage"),
       ConcCall("set_lightweight_mode", <<>>, <<>>, <<>>, TRUE),
       ConcCall("set_lightweight_mode", <<>>, <<>>, <<>>, FALSE),
       Nullary("is_lightweight_mode") >>

Returned == 0

\* a thread about to make call number n
ThreadAt(n) == [n |-> n, call |-> ConcCalls[n], at |-> 1, lightweight |-> FALSE, ret |-> <<>>]

\* the order in which check_batch takes its two locks, were it the other way
\* round: stats first, seen_items second
WriteLockAt_BatchStatsFirst(op, at) ==
    CASE op = "check_and_add" /\ at = 1 -> "seen_items"
      [] op = "check_and_add" /\ at = 2 -> "stats"
      [] op = "check_batch" /\ at = 1 -> "stats"
      [] op = "check_batch" /\ at = 2 -> "seen_items"
      [] op = "clear" /\ at = 1 -> "seen_items"
      [] op = "clear" /\ at = 3 -> "stats"
      [] op = "filter_opportunities" /\ at = 1 -> "scan_count"
      [] op = "filter_opportunities" /\ at = 4 -> "seen_opportunities"
      [] op = "reset" /\ at = 1 -> "seen_opportunities"
      [] op = "reset" /\ at = 3 -> "scan_count"
      [] op = "aggregate_prices" /\ at = 3 -> "price_cache"
      [] op = "clear_cache" /\ at = 1 -> "price_cache"
      [] op = "set_lightweight_mode" /\ at = 1 -> "mode"
      [] OTHER -> None

\* the `.write()` a call makes at its step `at`: the lock it takes
WriteLockAt(op, at) ==
    CASE op \in {"check_and_add", "check_batch"} /\ at = 1 -> "seen_items"
      [] op \in {"check_and_add", "check_batch"} /\ at = 2 -> "stats"
      [] op = "clear" /\ at = 1 -> "seen_items"
      [] op = "clear" /\ at = 3 -> "stats"
      [] op = "filter_opportunities" /\ at = 1 -> "scan_count"
      [] op = "filter_opportunities" /\ at = 4 -> "seen_opportunities"
      [] op = "reset" /\ at = 1 -> "seen_opportunities"
      [] op = "reset" /\ at = 3 -> "scan_count"
      [] op = "aggregate_prices" /\ at = 3 -> "price_cache"
      [] op = "clear_cache" /\ at = 1 -> "price_cache"
      [] op = "set_lightweight_mode" /\ at = 1 -> "mode"
      [] OTHER -> None

\* the `.read()` a call makes at its step `at`: the lock it takes
ReadLockAt(op, at) ==
    CASE op = "check_and_add" /\ at = 4 -> "mode"
      [] op = "get_stats" /\ at = 1 -> "stats"
      [] op \in {"dedup_get_cache_size", "get_memory_savings"} /\ at = 1 -> "seen_items"
      [] op = "filter_opportunities" /\ at = 2 -> "mode"
      [] op = "get_scan_count" /\ at = 1 -> "scan_count"
      [] op = "scan_get_cache_size" /\ at = 1 -> "seen_opportunities"
      [] op = "aggregate_prices" /\ at = 1 -> "mode"
      [] op \in {"agg_get_cache_size", "get_memory_usage"} /\ at = 1 -> "price_cache"
      [] op = "is_lightweight_mode" /\ at = 1 -> "mode"
      [] OTHER -> None

\* RwLock::write: waits while any thread holds the lock
CanWrite(l) == lock[l].writer = 0 /\ lock[l].readers = {}

\* a thread other than t is at a write() of l
WriterWaits(t, l) ==
    \E u \in Threads \ {t} :
       thread[u].at # Returned /\ WriteLockAt(thread[u].call.op, thread[u].at) = l

\* RwLock::read: waits while a thread holds the lock for writing, and, the
\* lock being held by readers, while a writer waits for it
CanRead(t, l) ==
    /\ lock[l].writer = 0
    /\ lock[l].readers # {} => ~WriterWaits(t, l)

\* the guards of thread t on the locks of L are dropped
Release(t, L) ==
    [l \in LockNames |->
        IF l \in L
        THEN [writer |-> IF lock[l].writer = t THEN 0 ELSE lock[l].writer,
              readers |-> lock[l].readers \ {t}]
        ELSE lock[l]]

Goes(t, at) == thread' = [thread EXCEPT ![t].at = at]

Returns(t, ret) == thread' = [thread EXCEPT ![t].at = Returned, ![t].ret = ret]

At(t, op, at) == thread[t].call.op = op /\ thread[t].at = at

\* `self.<lock>.write()`
T_write(t) ==
    LET l == WriteLockAt(thread[t].call.op, thread[t].at) IN
    /\ thread[t].at # Returned
    /\ l # None
    /\ CanWrite(l)
    /\ lock' = [lock EXCEPT ![l].writer = t]
    /\ Goes(t, thread[t].at + 1)
    /\ UNCHANGED <<lightweight_mode, dedup_vars, agg_vars, scan_vars>>

\* `self.<lock>.read()`, `LIGHTWEIGHT_MODE.read()`
T_read(t) ==
    LET l == ReadLockAt(thread[t].call.op, thread[t].at) IN
    /\ thread[t].at # Returned
    /\ l # None
    /\ CanRead(t, l)
    /\ lock' = [lock EXCEPT ![l].readers = @ \cup {t}]
    /\ Goes(t, thread[t].at + 1)
    /\ UNCHANGED <<lightweight_mode, dedup_vars, agg_vars, scan_vars>>

\* check_and_add, lines 57-63 and 84-85: with seen_items and stats held; a
\* full cache goes on to read the mode
T_check_and_add_check(t) ==
    LET key == thread[t].call.keys[1] IN
    /\ At(t, "check_and_add", 3)
    /\ IF key \notin seen_items /\ CacheIsFull(seen_items, max_size)
       THEN /\ Goes(t, 4)
            /\ UNCHANGED <<seen_items, stats, lock>>
       ELSE /\ \E o \in CheckAndAddOutcomes(seen_items, stats, max_size, key, FALSE) :
                  /\ seen_items' = o.seen
                  /\ stats' = o.stats
                  /\ Returns(t, <<o.ret>>)
            /\ lock' = Release(t, {"seen_items", "stats"})
    /\ UNCHANGED <<lightweight_mode, d_live, max_size, d_last, d_only_single, d_passed,
                   agg_vars, scan_vars>>

\* check_and_add, lines 66-85: the value of the mode, read with seen_items and
\* stats held, the cleanup and the insert
T_check_and_add_evict(t) ==
    /\ At(t, "check_and_add", 5)
    /\ \E o \in CheckAndAddOutcomes(seen_items, stats, max_size, thread[t].call.keys[1],
                                     lightweight_mode) :
          /\ seen_items' = o.seen
          /\ stats' = o.stats
          /\ Returns(t, <<o.ret>>)
    /\ lock' = Release(t, {"seen_items", "stats", "mode"})
    /\ UNCHANGED <<lightweight_mode, d_live, max_size, d_last, d_only_single, d_passed,
                   agg_vars, scan_vars>>

\* check_batch, lines 93-106
T_check_batch_body(t) ==
    /\ At(t, "check_batch", 3)
    /\ \E o \in {CheckBatchLoop(seen_items, stats, thread[t].call.keys, <<>>)} :
          /\ seen_items' = o.seen
          /\ stats' = o.stats
          /\ Returns(t, o.ret)
    /\ lock' = Release(t, {"seen_items", "stats"})
    /\ UNCHANGED <<lightweight_mode, d_live, max_size, d_last, d_only_single, d_passed,
                   agg_vars, scan_vars>>

\* get_stats, lines 111-116
T_get_stats(t) ==
    /\ At(t, "get_stats", 2)
    /\ Returns(t, <<GetStats(stats)>>)
    /\ lock' = Release(t, {"stats"})
    /\ UNCHANGED <<lightweight_mode, dedup_vars, agg_vars, scan_vars>>

\* Deduplicator::get_cache_size
T_dedup_get_cache_size(t) ==
    /\ At(t, "dedup_get_cache_size", 2)
    /\ Returns(t, <<Cardinality(seen_items)>>)
    /\ lock' = Release(t, {"seen_items"})
    /\ UNCHANGED <<lightweight_mode, dedup_vars, agg_vars, scan_vars>>

\* get_memory_savings
T_get_memory_savings(t) ==
    /\ At(t, "get_memory_savings", 2)
    /\ Returns(t, <<MemorySavings(seen_items, max_size)>>)
    /\ lock' = Release(t, {"seen_items"})
    /\ UNCHANGED <<lightweight_mode, dedup_vars, agg_vars, scan_vars>>

\* clear, line 126: `self.seen_items.write().clear();`, the guard dropped
T_clear_seen(t) ==
    /\ At(t, "clear", 2)
    /\ seen_items' = {}
    /\ Goes(t, 3)
    /\ lock' = Release(t, {"seen_items"})
    /\ UNCHANGED <<lightweight_mode, d_live, max_size, stats, d_last, d_only_single, d_passed,
                   agg_vars, scan_vars>>

\* clear, line 128: the counters are set to zero
T_clear_stats(t) ==
    /\ At(t, "clear", 4)
    /\ stats' = DedupStatsDefault
    /\ Returns(t, <<>>)
    /\ lock' = Release(t, {"stats"})
    /\ UNCHANGED <<lightweight_mode, d_live, max_size, seen_items, d_last, d_only_single, d_passed,
                   agg_vars, scan_vars>>

\* filter_opportunities, line 36: the value of is_lightweight_mode(), read
\* with scan_count held
T_filter_mode(t) ==
    /\ At(t, "filter_opportunities", 3)
    /\ thread' = [thread EXCEPT ![t].at = 4, ![t].lightweight = lightweight_mode]
    /\ lock' = Release(t, {"mode"})
    /\ UNCHANGED <<lightweight_mode, dedup_vars, agg_vars, scan_vars>>

\* filter_opportunities, lines 34 and 38-68: with scan_count and
\* seen_opportunities held
T_filter_body(t) ==
    /\ At(t, "filter_opportunities", 5)
    /\ scan_count' = ScanCountAfter(scan_count, thread[t].call.opps)
    /\ \E o \in {FilterLoop(seen_opportunities, thread[t].call.opps, min_profit_bps,
                           thread[t].lightweight, <<>>, <<>>)} :
          /\ seen_opportunities' = o.seen
          /\ Returns(t, o.out)
    /\ lock' = Release(t, {"scan_count", "seen_opportunities"})
    /\ UNCHANGED <<lightweight_mode, dedup_vars, agg_vars, s_live, min_profit_bps, s_last,
                   s_emitted, s_all_lightweight>>

\* get_scan_count
T_get_scan_count(t) ==
    /\ At(t, "get_scan_count", 2)
    /\ Returns(t, <<scan_count>>)
    /\ lock' = Release(t, {"scan_count"})
    /\ UNCHANGED <<lightweight_mode, dedup_vars, agg_vars, scan_vars>>

\* TurboScanner::get_cache_size
T_scan_get_cache_size(t) ==
    /\ At(t, "scan_get_cache_size", 2)
    /\ Returns(t, <<Cardinality(seen_opportunities)>>)
    /\ lock' = Release(t, {"seen_opportunities"})
    /\ UNCHANGED <<lightweight_mode, dedup_vars, agg_vars, scan_vars>>

\* reset, line 88: `self.seen_opportunities.write().clear();`, the guard dropped
T_reset_seen(t) ==
    /\ At(t, "reset", 2)
    /\ seen_opportunities' = {}
    /\ Goes(t, 3)
    /\ lock' = Release(t, {"seen_opportunities"})
    /\ UNCHANGED <<lightweight_mode, dedup_vars, agg_vars, s_live, min_profit_bps,
                   scan_count, s_last, s_emitted, s_all_lightweight>>

\* reset, line 90: `*count = 0`
T_reset_count(t) ==
    /\ At(t, "reset", 4)
    /\ scan_count' = 0
    /\ Returns(t, <<>>)
    /\ lock' = Release(t, {"scan_count"})
    /\ UNCHANGED <<lightweight_mode, dedup_vars, agg_vars, s_live, min_profit_bps,
                   seen_opportunities, s_last, s_emitted, s_all_lightweight>>

\* aggregate_prices, line 40: the value of is_lightweight_mode()
T_aggregate_mode(t) ==
    /\ At(t, "aggregate_prices", 2)
    /\ thread' = [thread EXCEPT ![t].at = 3, ![t].lightweight = lightweight_mode]
    /\ lock' = Release(t, {"mode"})
    /\ UNCHANGED <<lightweight_mode, dedup_vars, agg_vars, scan_vars>>

\* aggregate_prices, lines 42-77: with price_cache held; the call's
\* current_time_ms is the last one the aggregator was given
T_aggregate_body(t) ==
    /\ At(t, "aggregate_prices", 4)
    /\ \E o \in {AggregatePrices(price_cache, thread[t].call.prices, a_clock,
                                cache_timeout_ms, thread[t].lightweight)} :
          /\ price_cache' = o.cache
          /\ Returns(t, o.out)
    /\ lock' = Release(t, {"price_cache"})
    /\ UNCHANGED <<lightweight_mode, dedup_vars, scan_vars, a_live, cache_timeout_ms,
                   a_last, a_clock>>

\* calculate_median_price takes no lock
T_calculate_median_price(t) ==
    /\ At(t, "calculate_median_price", 1)
    /\ Returns(t, CalculateMedianPrice(thread[t].call.prices))
    /\ UNCHANGED <<lightweight_mode, dedup_vars, agg_vars, scan_vars, lock>>

\* TurboAggregator::get_cache_size
T_agg_get_cache_size(t) ==
    /\ At(t, "agg_get_cache_size", 2)
    /\ Returns(t, <<Cardinality(DOMAIN price_cache)>>)
    /\ lock' = Release(t, {"price_cache"})
    /\ UNCHANGED <<lightweight_mode, dedup_vars, agg_vars, scan_vars>>

\* clear_cache: `self.price_cache.write().clear();`
T_clear_cache(t) ==
    /\ At(t, "clear_cache", 2)
    /\ price_cache' = EmptyCache
    /\ Returns(t, <<>>)
    /\ lock' = Release(t, {"price_cache"})
    /\ UNCHANGED <<lightweight_mode, dedup_vars, scan_vars, a_live, cache_timeout_ms,
                   a_last, a_clock>>

\* get_memory_usage
T_get_memory_usage(t) ==
    /\ At(t, "get_memory_usage", 2)
    /\ Returns(t, <<GetMemoryUsage(price_cache)>>)
    /\ lock' = Release(t, {"price_cache"})
    /\ UNCHANGED <<lightweight_mode, dedup_vars, agg_vars, scan_vars>>

\* set_lightweight_mode, line 24: `*mode = enabled` with the mode lock held
T_set_mode_write(t) ==
    /\ At(t, "set_lightweight_mode", 2)
    /\ set_lightweight_mode(thread[t].call.enabled)
    /\ Returns(t, <<>>)
    /\ lock' = Release(t, {"mode"})
    /\ UNCHANGED <<dedup_vars, agg_vars, scan_vars>>

\* is_lightweight_mode: `*LIGHTWEIGHT_MODE.read()`
T_is_lightweight_mode(t) ==
    /\ At(t, "is_lightweight_mode", 2)
    /\ Returns(t, <<lightweight_mode>>)
    /\ lock' = Release(t, {"mode"})
    /\ UNCHANGED <<lightweight_mode, dedup_vars, agg_vars, scan_vars>>

ThreadStep(t) ==
    \/ T_write(t)
    \/ T_read(t)
    \/ T_check_and_add_check(t)
    \/ T_check_and_add_evict(t)
    \/ T_check_batch_body(t)
    \/ T_get_stats(t)
    \/ T_dedup_get_cache_size(t)
    \/ T_get_memory_savings(t)
    \/ T_clear_seen(t)
    \/ T_clear_stats(t)
    \/ T_filter_mode(t)
    \/ T_filter_body(t)
    \/ T_get_scan_count(t)
    \/ T_scan_get_cache_size(t)
    \/ T_reset_seen(t)
    \/ T_reset_count(t)
    \/ T_aggregate_mode(t)
    \/ T_aggregate_body(t)
    \/ T_calculate_median_price(t)
    \/ T_agg_get_cache_size(t)
    \/ T_clear_cache(t)
    \/ T_get_memory_usage(t)
    \/ T_set_mode_write(t)
    \/ T_is_lightweight_mode(t)

\* one new instance of each engine, built in normal mode, and each thread
\* about to make one call; the threads are interchangeable, so of the
\* assignments of calls to threads that differ only in the order of the
\* threads one is taken
ConcInit ==
    /\ lightweight_mode = FALSE
    /\ d_live = TRUE
    /\ max_size = NewMaxSize(FALSE)
    /\ seen_items = {}
    /\ stats = DedupStatsDefault
    /\ d_last = NoCall
    /\ d_only_single = TRUE
    /\ d_passed = {}
    /\ a_live = TRUE
    /\ cache_timeout_ms = NewCacheTimeout(10000, FALSE)
    /\ price_cache = EmptyCache
    /\ a_last = NoAggCall
    /\ a_clock = 0
    /\ s_live = TRUE
    /\ min_profit_bps = 50
    /\ seen_opportunities = {}
    /\ scan_count = 0
    /\ s_last = NoScanCall
    /\ s_emitted = {}
    /\ s_all_lightweight = TRUE
    /\ \E calls \in [Threads -> 1..Len(ConcCalls)] :
          /\ \A t \in Threads : t + 1 \in Threads => calls[t] <= calls[t + 1]
          /\ thread = [t \in Threads |-> ThreadAt(calls[t])]
    /\ lock = Unlocked

ConcNext == \E t \in Threads : ThreadStep(t)

\* the scheduler runs every thread that can take a step, and parking_lot
\* hands a released lock to a waiting thread
FairConc ==
    /\ ConcInit
    /\ [][ConcNext]_vars
    /\ \A t \in Threads : WF_vars(ThreadStep(t))

-----------------------------------------------------------------------------
Init ==
    /\ lightweight_mode = FALSE
    /\ d_live = FALSE
    /\ max_size = 0
    /\ seen_items = {}
    /\ stats = DedupStatsDefault
    /\ d_last = NoCall
    /\ d_only_single = TRUE
    /\ d_passed = {}
    /\ a_live = FALSE
    /\ cache_timeout_ms = 0
    /\ price_cache = EmptyCache
    /\ a_last = NoAggCall
    /\ a_clock = 0
    /\ s_live = FALSE
    /\ min_profit_bps = 0
    /\ seen_opportunities = {}
    /\ scan_count = 0
    /\ s_last = NoScanCall
    /\ s_emitted = {}
    /\ s_all_lightweight = TRUE
    /\ thread = <<>>
    /\ lock = Unlocked

DedupNext ==
    \/ \E enabled \in BOOLEAN : Dedup_set_mode(enabled)
    \/ Dedup_new
    \/ \E key \in Keys : Dedup_check_and_add(key)
    \/ \E keys \in SeqsUpTo(Keys, MaxBatch) : Dedup_check_batch(keys)
    \/ Dedup_get_stats
    \/ Dedup_get_cache_size
    \/ Dedup_clear
    \/ Dedup_get_memory_savings

SpecDedup == Init /\ [][DedupNext]_vars

AggNext ==
    \/ \E enabled \in BOOLEAN : Agg_set_mode(enabled)
    \/ \E timeout \in TimeoutChoices : Agg_new(timeout)
    \/ \E prices \in SeqsUpTo(PriceInputs, MaxPrices), now \in Times :
          Agg_aggregate_prices(prices, now)
    \/ Agg_get_cache_size
    \/ Agg_clear_cache
    \/ Agg_get_memory_usage
    \/ Agg_returned

SpecAgg == Init /\ [][AggNext]_vars

MedianNext ==
    \E prices \in SeqsUpTo(PriceInputs, MaxPrices) : Agg_calculate_median_price(prices)

ScanNext ==
    \/ \E enabled \in BOOLEAN : Scan_set_mode(enabled)
    \/ \E min \in MinProfitChoices : Scan_new(min)
    \/ \E opps \in SeqsUpTo(OppInputs, MaxOpps) : Scan_filter_opportunities(opps)
    \/ Scan_get_scan_count
    \/ Scan_reset
    \/ Scan_get_cache_size

SpecScan == Init /\ [][ScanNext]_vars

\* the operations of the crate called one at a time; the concurrent callers are
\* FairConc
Next == DedupNext \/ AggNext \/ MedianNext \/ ScanNext

Spec == Init /\ [][Next]_vars

-----------------------------------------------------------------------------
(* Claims about the Deduplicator *)

\* C1: as long as only check_and_add has been called on a new Deduplicator
\* (set_lightweight_mode calls anywhere in between), the cache size never
\* exceeds max_size.
C1_EvictionBound ==
    d_only_single => Cardinality(seen_items) <= max_size

\* a check_and_add found the cache exactly full and ran the cleanup
C1_Witness ==
    /\ d_live /\ d_only_single
    /\ d_last.op = "check_and_add" /\ d_last.evicted
    /\ d_last.size_before = max_size
    /\ stats.cache_clears >= 1

\* C2 as stated: after every operation on a Deduplicator the seen-set holds at
\* most max_size keys.
C2_SizeInvariant ==
    d_live => Cardinality(seen_items) <= max_size

\* C2 amended: every operation other than check_batch leaves at most max_size
\* keys when there were at most max_size before it, and clear and a
\* check_and_add that returns false leave at most max_size keys whatever the
\* size before; only check_batch can take the set past max_size.
C2_SizeKeptExceptBatch ==
    [][ \/ d_last'.op = "check_batch"
        \/ ( ( \/ Cardinality(seen_items) <= max_size
               \/ d_last'.op = "clear"
               \/ (d_last'.op = "check_and_add" /\ d_last'.ret = <<FALSE>>) )
             => Cardinality(seen_items') <= max_size' ) ]_vars

\* a check_and_add of a new key found more than max_size keys (left by
\* check_batch) and brought the set back under max_size
C2_Witness ==
    /\ d_last.op = "check_and_add" /\ d_last.ret = <<FALSE>>
    /\ d_last.size_before > max_size
    /\ Cardinality(seen_items) <= max_size

\* C3: check_and_add(k) of a key not in the seen-set returns false, and a
\* check_and_add(k) that is the next call on the instance after a
\* check_and_add(k) that returned false returns true, also when that first call
\* ran the cleanup.
C3_DuplicateDetection ==
    [][ \A key \in Keys :
          Dedup_check_and_add(key) =>
             /\ (key \notin seen_items => d_last'.ret = <<FALSE>>)
             /\ (Follows(key) # None => d_last'.ret = <<TRUE>>) ]_vars

\* the second of two check_and_add(k) in a row, the first of which ran the cleanup
C3_Witness ==
    /\ d_last.op = "check_and_add"
    /\ d_last.follows = "first_evicted"
    /\ d_last.ret = <<TRUE>>

-----------------------------------------------------------------------------
(* Claims about the TurboAggregator *)

\* a step of the model that is a call of aggregate_prices
AggStep == a_last' # a_last /\ a_last'.op = "aggregate_prices"

\* the entry a key has when the loop of a call starts: the one the cache held
\* when the call was made, unless the call ran the lightweight sweep and the
\* entry was cache_timeout_ms old or older
EntryAtStart(key, now, lightweight) ==
    IF key \in DOMAIN price_cache
       /\ ~(lightweight /\ now - price_cache[key].timestamp >= cache_timeout_ms)
    THEN <<price_cache[key]>> ELSE <<>>

\* the steps before step i of a log that were about the key of step i
EarlierSameKey(log, i) ==
    {j \in 1..(i - 1) : PriceKey(log[j].price) = PriceKey(log[i].price)}

Last(S) == CHOOSE x \in S : \A y \in S : y <= x

\* the rule of C6 for one logged step
C6_StepRule(step, now) ==
    IF step.hit # <<>> /\ now - step.hit[1].timestamp < dedup_window_ms
    THEN step.emit = <<>> /\ step.unchanged
    ELSE IF step.hit # <<>> /\ now - step.hit[1].timestamp < cache_timeout_ms
    THEN step.emit = <<step.hit[1].data>> /\ step.unchanged
    ELSE /\ step.entry = <<[data |-> step.price, timestamp |-> now]>>
         /\ step.emit = <<step.price>>

RECURSIVE Emitted(_)
Emitted(log) == IF log = <<>> THEN <<>> ELSE Head(log).emit \o Emitted(Tail(log))

\* C6: aggregate_prices takes the observations in input order, each against
\* the cache as the earlier observations of the call left it: an entry younger
\* than dedup_window_ms drops the observation and the cache stays as it is;
\* otherwise an entry younger than cache_timeout_ms is emitted in its place
\* and the cache stays as it is; otherwise the observation is stored with
\* now_ms and emitted.  The output is what the steps emitted, in order.
C6_Decisions ==
    [][ AggStep =>
          LET c == a_last' IN
          /\ Len(c.log) = Len(c.prices)
          /\ \A i \in 1..Len(c.log) :
                /\ c.log[i].price = c.prices[i]
                /\ c.log[i].hit =
                      IF EarlierSameKey(c.log, i) = {}
                      THEN EntryAtStart(PriceKey(c.prices[i]), c.now, c.lightweight)
                      ELSE c.log[Last(EarlierSameKey(c.log, i))].entry
                /\ C6_StepRule(c.log[i], c.now)
          /\ c.out = Emitted(c.log) ]_vars

\* one call served a cached value in place of its first observation and
\* stored its second observation
C6_Witness ==
    /\ a_last.op = "aggregate_prices" /\ Len(a_last.log) = 2
    /\ a_last.log[1].hit # <<>> /\ ~a_last.log[1].stored
    /\ a_last.log[1].emit # <<>> /\ a_last.log[1].emit # <<a_last.log[1].price>>
    /\ a_last.log[2].stored

\* a call of aggregate_prices with the same observation twice
TwoIdentical(c) ==
    c.op = "aggregate_prices" /\ Len(c.prices) = 2 /\ c.prices[1] = c.prices[2]

\* C7 as stated: two identical observations in one call give exactly one
\* output entry, whatever earlier calls (with non-decreasing now_ms) left in
\* the cache.
C7_OneOfTwo ==
    TwoIdentical(a_last) => Len(a_last.out) = 1

\* C7 amended: two identical observations in one call give exactly one output
\* entry, the observation, when the cache has at the start of the call no
\* entry for the observation's key or only one that is at least
\* dedup_window_ms and at least cache_timeout_ms old.
C7_OneOfTwoWhenNotCached ==
    [][ (AggStep /\ TwoIdentical(a_last')) =>
          LET c == a_last'
              key == PriceKey(c.prices[1])
          IN ( \/ key \notin DOMAIN price_cache
               \/ /\ c.now - price_cache[key].timestamp >= dedup_window_ms
                  /\ c.now - price_cache[key].timestamp >= cache_timeout_ms )
             => c.out = <<c.prices[1]>> ]_vars

\* the same observation twice, the first replacing an entry that was too old
C7_Witness ==
    /\ TwoIdentical(a_last)
    /\ a_last.log[1].hit # <<>> /\ a_last.log[1].stored
    /\ a_last.out = <<a_last.prices[1]>>

\* the observation of a logged step was stored with now_ms and emitted
StoredAndEmitted(step, now) ==
    /\ step.entry = <<[data |-> step.price, timestamp |-> now]>>
    /\ step.emit = <<step.price>>

\* C8 as stated: an observation whose key has an entry of age >=
\* cache_timeout_ms is stored and emitted.
C8_StaleReplaced ==
    a_last.op = "aggregate_prices" =>
       \A i \in 1..Len(a_last.log) :
          ( /\ a_last.log[i].hit # <<>>
            /\ a_last.now - a_last.log[i].hit[1].timestamp >= cache_timeout_ms )
          => StoredAndEmitted(a_last.log[i], a_last.now)

\* C8 amended: an observation whose key has an entry of age >= cache_timeout_ms
\* and >= dedup_window_ms is stored and emitted.
C8_StaleReplacedOutsideWindow ==
    a_last.op = "aggregate_prices" =>
       \A i \in 1..Len(a_last.log) :
          ( /\ a_last.log[i].hit # <<>>
            /\ a_last.now - a_last.log[i].hit[1].timestamp >= cache_timeout_ms
            /\ a_last.now - a_last.log[i].hit[1].timestamp >= dedup_window_ms )
          => StoredAndEmitted(a_last.log[i], a_last.now)

\* an entry as old as the timeout was replaced by an observation with other data
C8_Witness ==
    /\ a_last.op = "aggregate_prices"
    /\ \E i \in 1..Len(a_last.log) :
          /\ a_last.log[i].hit # <<>>
          /\ a_last.now - a_last.log[i].hit[1].timestamp = cache_timeout_ms
          /\ a_last.log[i].hit[1].data # a_last.log[i].price
          /\ a_last.log[i].stored

\* the observation a call stored last for a key, as <<>> or <<observation>>
LastStored(log, key) ==
    LET S == {i \in 1..Len(log) : log[i].stored /\ PriceKey(log[i].price) = key} IN
    IF S = {} THEN <<>> ELSE <<log[Last(S)].price>>

\* C9 as stated: each cached key holds the observation stored last for it, and
\* the entry's timestamp is that observation's timestamp.
C9_EntryIsLastAccepted ==
    [][ \A key \in DOMAIN price_cache' :
          LET st == LastStored(a_last'.log, key) IN
          IF AggStep /\ st # <<>>
          THEN price_cache'[key] = [data |-> st[1], timestamp |-> st[1].timestamp]
          ELSE key \in DOMAIN price_cache /\ price_cache'[key] = price_cache[key] ]_vars

\* C9 amended: each cached key holds the observation stored last for it, and
\* the entry's timestamp is the now_ms of the call that stored it.
C9_EntryIsLastAcceptedAtNow ==
    [][ \A key \in DOMAIN price_cache' :
          LET st == LastStored(a_last'.log, key) IN
          IF AggStep /\ st # <<>>
          THEN price_cache'[key] = [data |-> st[1], timestamp |-> a_last'.now]
          ELSE key \in DOMAIN price_cache /\ price_cache'[key] = price_cache[key] ]_vars

\* an entry just stored whose timestamp is not the observation's own, beside
\* an entry an earlier call stored
C9_Witness ==
    /\ a_last.op = "aggregate_prices"
    /\ \E i \in 1..Len(a_last.log) :
          LET key == PriceKey(a_last.log[i].price) IN
          /\ a_last.log[i].stored
          /\ a_last.log[i].price.timestamp # a_last.now
          /\ price_cache[key] = [data |-> a_last.log[i].price, timestamp |-> a_last.now]
          /\ \E other \in DOMAIN price_cache :
                other # key /\ price_cache[other].timestamp < a_last.now

-----------------------------------------------------------------------------
(* Claims about the TurboScanner *)

\* C10: no opportunity with profit_bps < min_profit_bps is in the output of
\* filter_opportunities, and such a candidate leaves the seen-set as it was.
C10_ProfitThreshold ==
    s_last.op = "filter_opportunities" =>
       /\ \A i \in 1..Len(s_last.out) : s_last.out[i].profit_bps >= min_profit_bps
       /\ \A i \in 1..Len(s_last.log) :
             s_last.log[i].opp.profit_bps < min_profit_bps =>
                ~s_last.log[i].emitted /\ s_last.log[i].unchanged

\* a low-profit candidate whose fingerprint was not in the seen-set was
\* discarded, in a call that emitted another candidate
C10_Witness ==
    /\ s_last.op = "filter_opportunities"
    /\ s_last.out # <<>>
    /\ \E i \in 1..Len(s_last.log) :
          /\ s_last.log[i].opp.profit_bps < min_profit_bps
          /\ GenerateOpportunityKey(s_last.log[i].opp) \notin seen_opportunities

-----------------------------------------------------------------------------
(* Claims about concurrent callers *)

AllReturned == \A t \in Threads : thread[t].at = Returned

\* the orders in which the threads of S can be put
Orders(S) ==
    {f \in [1..Cardinality(S) -> S] : \A i, j \in DOMAIN f : i # j => f[i] # f[j]}

DedupWriters ==
    {t \in Threads : thread[t].call.op \in {"check_and_add", "check_batch", "clear"}}

ScanWriters ==
    {t \in Threads : thread[t].call.op \in {"filter_opportunities", "reset"}}

\* what one Deduplicator call, run alone, can make of (seen, st), whatever the
\* mode is at that time
DedupAlone(seen, st, call) ==
    CASE call.op = "check_and_add" ->
            UNION {{[seen |-> o.seen, stats |-> o.stats, ret |-> <<o.ret>>] :
                      o \in CheckAndAddOutcomes(seen, st, max_size, call.keys[1], lw)} :
                   lw \in BOOLEAN}
      [] call.op = "check_batch" ->
            {CheckBatchLoop(seen, st, call.keys, <<>>)}
      [] OTHER ->
            {[seen |-> {}, stats |-> DedupStatsDefault, ret |-> <<>>]}

\* the calls of the threads order[i..], run one at a time from (seen, st)
RECURSIVE DedupSerial(_, _, _, _, _)
DedupSerial(order, i, seen, st, rets) ==
    IF i > Len(order) THEN {[seen |-> seen, stats |-> st, rets |-> rets]}
    ELSE UNION {DedupSerial(order, i + 1, o.seen, o.stats, rets @@ (order[i] :> o.ret)) :
                  o \in DedupAlone(seen, st, thread[order[i]].call)}

\* what one TurboScanner call, run alone, makes of (seen, count), whatever the
\* mode is at that time
ScanAlone(seen, count, call) ==
    IF call.op = "filter_opportunities"
    THEN {[seen |-> FilterLoop(seen, call.opps, min_profit_bps, lw, <<>>, <<>>).seen,
           count |-> count + 1,
           ret |-> FilterLoop(seen, call.opps, min_profit_bps, lw, <<>>, <<>>).out] :
            lw \in BOOLEAN}
    ELSE {[seen |-> {}, count |-> 0, ret |-> <<>>]}

RECURSIVE ScanSerial(_, _, _, _, _)
ScanSerial(order, i, seen, count, rets) ==
    IF i > Len(order) THEN {[seen |-> seen, count |-> count, rets |-> rets]}
    ELSE UNION {ScanSerial(order, i + 1, o.seen, o.count, rets @@ (order[i] :> o.ret)) :
                  o \in ScanAlone(seen, count, thread[order[i]].call)}

DedupLinearizable ==
    \E order \in Orders(DedupWriters) :
       \E r \in DedupSerial(order, 1, {}, DedupStatsDefault, <<>>) :
          /\ r.seen = seen_items
          /\ r.stats = stats
          /\ \A t \in DedupWriters : r.rets[t] = thread[t].ret

ScanLinearizable ==
    \E order \in Orders(ScanWriters) :
       \E r \in ScanSerial(order, 1, {}, 0, <<>>) :
          /\ r.seen = seen_opportunities
          /\ r.count = scan_count
          /\ \A t \in ScanWriters : r.rets[t] = thread[t].ret

\* C4: when the concurrent mutating calls on the Deduplicator (check_and_add,
\* check_batch, clear) and on the TurboScanner (filter_opportunities, reset)
\* have returned, their return values and the final state of the instance
\* (cache contents and counters / scan count) are those of the same calls run
\* one at a time in some total order.
C4_WritersLinearizable ==
    AllReturned => DedupLinearizable /\ ScanLinearizable

\* C5: under fair scheduling every call of every thread returns, whatever the
\* other threads call on the same Deduplicator, TurboAggregator and
\* TurboScanner and on the mode; in particular no state is reached in which
\* a call waits for ever for an engine lock or for the mode lock.
C5_EveryCallReturns ==
    \A t \in Threads : <>(thread[t].at = Returned)

Holds(t, l) == lock[l].writer = t \/ t \in lock[l].readers

\* a filter_opportunities holds scan_count and is about to read the mode,
\* which a set_lightweight_mode of another thread has locked for writing
C5_Witness ==
    \E t, u \in Threads :
       /\ At(t, "filter_opportunities", 2)
       /\ Holds(t, "scan_count")
       /\ At(u, "set_lightweight_mode", 2)
       /\ Holds(u, "mode")

\* ---------------------------------------------------------------------
\* The scanner's duplicate suppression
\* ---------------------------------------------------------------------

\* a step that is a filter_opportunities call
FilterStep == scan_count' # scan_count /\ s_last'.op = "filter_opportunities"

\* the (path, dexes) emitted since the seen-set was last emptied, as they
\* stand before candidate i of the call that has just run
EmittedBefore(i) == EmittedSince(s_emitted, SubSeq(s_last'.log, 1, i - 1))

\* C11: between two events that empty the seen-set (reset, or the overflow
\* clear of lightweight mode), filter_opportunities emits an opportunity of a
\* given (path, dexes) at most once: a candidate that is emitted has a
\* (path, dexes) that no earlier candidate of this call or of an earlier
\* call emitted since the seen-set was last emptied.
C11_EmittedAtMostOnce ==
    [][FilterStep =>
          \A i \in 1..Len(s_last'.log) :
             s_last'.log[i].emitted => Route(s_last'.log[i].opp) \notin EmittedBefore(i)]_vars

\* a later call offered one candidate, profitable enough, whose (path, dexes)
\* an earlier call had emitted, and emitted nothing
C11_Witness ==
    /\ s_last.op = "filter_opportunities"
    /\ scan_count >= 2
    /\ Len(s_last.opps) = 1
    /\ s_last.opps[1].profit_bps >= min_profit_bps
    /\ Route(s_last.opps[1]) \in s_emitted
    /\ s_last.out = <<>>

\* C12: the fingerprint tells opportunities apart: a candidate that meets
\* the profit threshold is discarded as a duplicate only if an opportunity
\* of the same path and the same dexes was emitted since the seen-set was
\* last emptied.
C12_DiscardedOnlyIfSameRoute ==
    [][FilterStep =>
          \A i \in 1..Len(s_last'.log) :
             (~s_last'.log[i].emitted /\ s_last'.log[i].opp.profit_bps >= min_profit_bps)
                => Route(s_last'.log[i].opp) \in EmittedBefore(i)]_vars

\* C13 as stated: a scanner whose every filter_opportunities ran in
\* lightweight mode never holds more fingerprints than the cap.
C13_NeverAboveCap ==
    (s_live /\ s_all_lightweight) => Cardinality(seen_opportunities) <= ScannerCap

\* C13: a scanner whose every filter_opportunities ran in lightweight mode
\* never holds more fingerprints than the cap plus one: the set is cleared
\* only when its size already exceeds the cap, and the candidate is recorded
\* after that test.
C13_NeverAboveCapPlusOne ==
    (s_live /\ s_all_lightweight) => Cardinality(seen_opportunities) <= ScannerCap + 1

\* the set holds one fingerprint more than the cap after calls that all ran
\* in lightweight mode, the last of which recorded a candidate without
\* clearing
C13_Witness ==
    /\ s_live /\ s_all_lightweight
    /\ s_last.op = "filter_opportunities"
    /\ Cardinality(seen_opportunities) = ScannerCap + 1
    /\ \E i \in 1..Len(s_last.log) :
          s_last.log[i].emitted /\ ~s_last.log[i].cleared /\ s_last.log[i].size_after = ScannerCap + 1

\* C17: the scan counter is 0 after construction and after reset, every
\* filter_opportunities adds exactly one to it whatever its candidates and
\* whatever it emits, get_scan_count returns it and leaves it alone, and no
\* call but filter_opportunities and reset changes it: it is the number of
\* filter_opportunities calls since construction or the last reset.
C17_ScanCounter ==
    [][/\ (~s_live /\ s_live') => scan_count' = 0
       /\ s_last'.op = "reset" => scan_count' = 0
       /\ (s_last'.op = "filter_opportunities" /\ scan_vars' # scan_vars)
             => scan_count' = scan_count + 1
       /\ s_last'.op = "get_scan_count"
             => s_last'.val = scan_count /\ scan_count' = scan_count
       /\ (s_live /\ s_last'.op \notin {"filter_opportunities", "reset"})
             => scan_count' = scan_count]_vars

\* get_scan_count returned 2 on a scanner with no fingerprint recorded: two
\* calls ran since construction or the last reset and neither emitted
C17_Witness ==
    /\ s_last.op = "get_scan_count"
    /\ s_last.val = 2
    /\ seen_opportunities = {}
    /\ s_emitted = {}

\* ---------------------------------------------------------------------
\* The deduplicator's eviction, batches and capacity
\* ---------------------------------------------------------------------

\* C14: a check_and_add of a key that is not in the seen-set, made when the
\* set holds max_size keys or more, leaves exactly keep_size of the keys the
\* set held plus the new key, with keep_size = max_size / 4 if the mode is
\* lightweight at that call and max_size / 2 otherwise, and adds one to
\* cache_clears; made when the set holds fewer than max_size keys it removes
\* no key and leaves cache_clears alone.
C14_BulkEviction ==
    [][\A key \in Keys :
          (Dedup_check_and_add(key) /\ key \notin seen_items) =>
             IF Cardinality(seen_items) >= max_size
             THEN /\ \E kept \in SUBSET seen_items :
                        /\ Cardinality(kept) = (IF lightweight_mode THEN max_size \div 4
                                                ELSE max_size \div 2)
                        /\ seen_items' = kept \cup {key}
                  /\ Cardinality(seen_items') =
                        (IF lightweight_mode THEN max_size \div 4 ELSE max_size \div 2) + 1
                  /\ stats'.cache_clears = stats.cache_clears + 1
             ELSE /\ seen_items' = seen_items \cup {key}
                  /\ stats'.cache_clears = stats.cache_clears]_vars

\* a check_and_add evicted from a set that check_batch had left above
\* max_size, and some key of the set was kept
C14_Witness ==
    /\ d_last.op = "check_and_add"
    /\ d_last.evicted
    /\ d_last.size_before > max_size
    /\ Cardinality(seen_items) = 2

\* a step that is a check_batch of at least one key
BatchStep == d_last'.op = "check_batch" /\ stats'.total_checked # stats.total_checked

\* C15: check_batch(keys) returns one boolean per key, in input order, and
\* result i is true exactly when keys[i] was in the seen-set before the call
\* or equals an earlier key of the batch; after the call every key of the
\* batch is in the seen-set and every key that was in it still is.
C15_BatchResults ==
    [][BatchStep =>
          /\ Len(d_last'.ret) = Len(d_last'.keys)
          /\ \A i \in 1..Len(d_last'.keys) :
                d_last'.ret[i] = (\/ d_last'.keys[i] \in seen_items
                                  \/ \E j \in 1..(i - 1) : d_last'.keys[j] = d_last'.keys[i])
          /\ \A i \in 1..Len(d_last'.keys) : d_last'.keys[i] \in seen_items'
          /\ seen_items \subseteq seen_items']_vars

\* a batch of twice the same new key on a set that is already full: the
\* first is new, the second is a duplicate of the first, nothing is evicted
C15_Witness ==
    /\ d_last.op = "check_batch"
    /\ Len(d_last.keys) = 2
    /\ d_last.keys[1] = d_last.keys[2]
    /\ d_last.ret = <<FALSE, TRUE>>
    /\ d_last.size_before >= max_size
    /\ Cardinality(seen_items) = d_last.size_before + 1

\* C16: a Deduplicator built in lightweight mode has the small capacity
\* (LightMaxSize, 5000 in the code) and one built in normal mode the large
\* one (NormalMaxSize, 20000 in the code); no later call, set_lightweight_mode
\* included, changes max_size, and a check_and_add of a new key evicts
\* exactly when the set holds max_size keys or more, whatever the mode is at
\* that call.
C16_CapacityFixedAtConstruction ==
    [][/\ (~d_live /\ d_live') =>
             max_size' = (IF lightweight_mode THEN LightMaxSize ELSE NormalMaxSize)
       /\ d_live => max_size' = max_size
       /\ \A key \in Keys :
             (Dedup_check_and_add(key) /\ key \notin seen_items) =>
                (d_last'.evicted <=> Cardinality(seen_items) >= max_size)]_vars

\* an instance built in lightweight mode evicted at the small capacity in a
\* call made in normal mode: it kept max_size / 2 keys, the normal share
C16_Witness ==
    /\ d_live
    /\ max_size = LightMaxSize
    /\ d_last.op = "check_and_add"
    /\ d_last.evicted
    /\ d_last.size_before = LightMaxSize
    /\ Cardinality(seen_items) = (LightMaxSize \div 2) + 1

\* C19: a check_and_add of a key that is in the seen-set returns true, adds
\* one to total_checked and one to duplicates_found, and leaves the seen-set
\* and cache_clears as they were, also when the set holds max_size keys or
\* more: a duplicate hit never evicts.
C19_DuplicateHitLeavesSet ==
    [][\A key \in Keys :
          (Dedup_check_and_add(key) /\ key \in seen_items) =>
             /\ d_last'.ret = <<TRUE>>
             /\ stats'.total_checked = stats.total_checked + 1
             /\ stats'.duplicates_found = stats.duplicates_found + 1
             /\ stats'.cache_clears = stats.cache_clears
             /\ seen_items' = seen_items]_vars

\* a duplicate hit on a set that holds max_size keys or more
C19_Witness ==
    /\ d_last.op = "check_and_add"
    /\ d_last.ret = <<TRUE>>
    /\ d_last.size_before >= max_size
    /\ Cardinality(seen_items) = d_last.size_before

\* a step that is a check_and_add, or a check_batch of at least one key
CheckStep ==
    /\ d_last'.op \in {"check_and_add", "check_batch"}
    /\ stats'.total_checked # stats.total_checked

\* C20: check_and_add and check_batch report a key as a duplicate only if
\* the key was passed to check_and_add or check_batch on this instance since
\* the last clear, or stands earlier in the same batch: eviction makes the
\* Deduplicator forget keys, never report a key it was not given.
C20_NoFalsePositive ==
    [][CheckStep =>
          \A i \in 1..Len(d_last'.ret) :
             d_last'.ret[i] =>
                d_last'.keys[i] \in d_passed \cup {d_last'.keys[j] : j \in 1..(i - 1)}]_vars

\* a duplicate is reported by an instance that has evicted and no longer
\* holds some key it was given
C20_Witness ==
    /\ d_last.op = "check_and_add"
    /\ d_last.ret = <<TRUE>>
    /\ stats.cache_clears >= 1
    /\ d_passed \ seen_items # {}

\* ---------------------------------------------------------------------
\* The aggregator's lightweight sweep
\* ---------------------------------------------------------------------

\* the cache entries that are cache_timeout_ms old or older at the time now
Overage(cache, now) ==
    {k \in DOMAIN cache : now - cache[k].timestamp >= cache_timeout_ms}

\* the keys a call stored an observation under
StoredKeys(log) == {PriceKey(log[i].price) : i \in {j \in 1..Len(log) : log[j].stored}}

\* C18 as stated: after an aggregate_prices call that ran in lightweight mode
\* the cache holds no entry that is cache_timeout_ms old or older; a call that
\* ran in normal mode removes no key.
C18_NoOverageEntry ==
    [][AggStep =>
          /\ a_last'.lightweight => Overage(price_cache', a_last'.now) = {}
          /\ ~a_last'.lightweight => DOMAIN price_cache \subseteq DOMAIN price_cache']_vars

\* C18: after an aggregate_prices call that ran in lightweight mode, the
\* cache holds no entry that is cache_timeout_ms old or older if
\* cache_timeout_ms is positive, keys absent from the observations included;
\* if cache_timeout_ms is zero or less, the entries that are left are those
\* the call itself stored, of age 0.  A call that ran in normal mode removes
\* no key.
C18_SweepThenStore ==
    [][AggStep =>
          /\ a_last'.lightweight =>
                /\ cache_timeout_ms > 0 => Overage(price_cache', a_last'.now) = {}
                /\ \A k \in Overage(price_cache', a_last'.now) :
                      /\ k \in StoredKeys(a_last'.log)
                      /\ price_cache'[k].timestamp = a_last'.now
          /\ ~a_last'.lightweight => DOMAIN price_cache \subseteq DOMAIN price_cache']_vars

\* a call in lightweight mode on an instance with a positive timeout swept
\* an entry whose key is not among its observations, and the key is gone
C18_Witness ==
    /\ a_last.op = "aggregate_prices"
    /\ a_last.lightweight
    /\ cache_timeout_ms > 0
    /\ a_last.prices # <<>>
    /\ \E k \in a_last.swept :
          /\ \A i \in 1..Len(a_last.prices) : PriceKey(a_last.prices[i]) # k
          /\ k \notin DOMAIN price_cache

\* ---------------------------------------------------------------------
\* The aggregator's cache keys
\* ---------------------------------------------------------------------

\* what identifies an observation: its pair of tokens and its source
Triple(price) == <<price.token_a, price.token_b, price.source>>

\* C21: the cache key tells observations apart: an observation that is not
\* stored (it is dropped, or the cached value is emitted in its place) found
\* a cache entry that was stored for an observation of exactly the same
\* (token_a, token_b, source).
C21_NotStoredOnlyBySameTriple ==
    [][AggStep =>
          \A i \in 1..Len(a_last'.log) :
             ~a_last'.log[i].stored =>
                /\ a_last'.log[i].hit # <<>>
                /\ Triple(a_last'.log[i].hit[1].data) = Triple(a_last'.log[i].price)]_vars

====
